---- MODULE Spec2Model ----
(***************************************************************************)
(* Model of src/app.py: a PyShiny Express dashboard.  A reactive calc,     *)
(* reactive_calc_combined, is invalidated by a timer; on each execution it *)
(* appends one synthetic reading to a deque(maxlen=DEQUE_SIZE) and returns *)
(* (deque, DataFrame, latest).  A second calc, predicted_temp, and six     *)
(* renderers read it.                                                      *)
(*                                                                         *)
(* Temperatures are kept in tenths of a degree (round(.., 1) in the code), *)
(* raw samples in hundredths.  Real arithmetic is exact rational           *)
(* arithmetic; a rational with denominator 0 is the float NaN (0.0/0.0).   *)
(***************************************************************************)
EXTENDS Integers, Sequences, FiniteSets, TLC

VARIABLES
    window,         \* the deque held by reactive_value_wrapper
    appended,       \* history: every reading ever appended, in order
    now,            \* wall clock, seconds
    flushes,        \* number of reactive flushes started (first render + timer firings)
    calcValid,      \* reactive_calc_combined holds a cached value
    calcDf,         \* the DataFrame of the cached tuple (one shared object)
    calcLatest,     \* the latest entry of the cached tuple
    predValid,      \* predicted_temp holds a cached value
    predValue,      \* the cached value of predicted_temp
    predRegressed,  \* predicted_temp called stats.linregress in this flush
    pending,        \* renderers invalidated and not yet re-run in this flush
    out,            \* last value produced by each renderer
    seen            \* what each caller of reactive_calc_combined got in this flush

vars == <<window, appended, now, flushes, calcValid, calcDf, calcLatest,
          predValid, predValue, predRegressed, pending, out, seen>>

----------------------------------------------------------------------------
(* Bounds of the model *)

MaxTicks == 6

(* Program constants *)

DEQUE_SIZE == 5

UPDATE_INTERVAL_SECS == 5

\* random.uniform(-18, -16), in hundredths of a degree
UniformLo == -1800

UniformHi == -1600

\* the raw draws explored: one that rounds to the low end of the range, and one that
\* rounds up to a value an odd number of tenths above it
RawSamples == {UniformLo + 4, UniformHi - 14}

Renderers == {"display_temp", "display_temp_note", "dynamic_predicted_value_box",
              "display_df", "display_plot", "display_bar_chart"}

\* the functions whose body calls reactive_calc_combined()
Consumers == {"display_temp", "display_temp_note", "predicted_temp",
              "display_df", "display_plot", "display_bar_chart"}

----------------------------------------------------------------------------
(* Exact rationals; den = 0 is NaN.  The arithmetic is written as functions, which  *)
(* take their arguments by value.                                                   *)

Abs(i) == IF i < 0 THEN -i ELSE i

Q == [num : Int, den : Int]

GCD[a \in Nat, b \in Nat] == IF b = 0 THEN a ELSE GCD[b, a % b]

Normal[n \in Int, d \in Int, g \in Nat] ==
    IF d < 0 THEN [num |-> -(n \div g), den |-> -(d \div g)]
    ELSE [num |-> n \div g, den |-> d \div g]

NaN == [num |-> 0, den |-> 0]

Rat[n \in Int, d \in Int] == IF d = 0 THEN NaN ELSE Normal[n, d, GCD[Abs(n), Abs(d)]]

IsNaN(q) == q.den = 0

RInt(i) == [num |-> i, den |-> 1]

RAdd[a \in Q, b \in Q] ==
    IF IsNaN(a) \/ IsNaN(b) THEN NaN
    ELSE Rat[a.num * b.den + b.num * a.den, a.den * b.den]

RSub[a \in Q, b \in Q] ==
    IF IsNaN(a) \/ IsNaN(b) THEN NaN
    ELSE Rat[a.num * b.den - b.num * a.den, a.den * b.den]

RMul[a \in Q, b \in Q] ==
    IF IsNaN(a) \/ IsNaN(b) THEN NaN
    ELSE Rat[a.num * b.num, a.den * b.den]

\* float division: 0.0/0.0 is NaN (the only division by zero the program performs)
RDiv[a \in Q, b \in Q] ==
    IF IsNaN(a) \/ IsNaN(b) THEN NaN
    ELSE Rat[a.num * b.den, a.den * b.num]

\* floor of n/d for d > 0
FloorDiv[n \in Int, d \in Int] == IF n >= 0 THEN n \div d ELSE -((-n + d - 1) \div d)

RoundAt[q \in Q, f \in Int] ==
    IF 2 * (q.num - f * q.den) < q.den THEN {f}
    ELSE IF 2 * (q.num - f * q.den) > q.den THEN {f + 1}
    ELSE {f, f + 1}

\* round(q) to an integer.  Off a tie the nearest integer; on an exact tie the
\* float's binary rounding error decides, so either neighbour is possible.
RoundHalfEither(q) == RoundAt[q, FloorDiv[q.num, q.den]]

----------------------------------------------------------------------------
(* Sampler *)

\* variant: the draw taken one degree too low
RandomTempWide == UNION {RoundHalfEither(Rat[raw - 100, 10]) : raw \in RawSamples}

\* round(random.uniform(-18, -16), 1): the possible temp values, in tenths
RandomTemp == UNION {RoundHalfEither(Rat[raw, 10]) : raw \in RawSamples}

\* datetime.now().strftime("%Y-%m-%d %H:%M:%S"): text, shown here as minute and second
Strftime(t) == [kind |-> "str", mm |-> t \div 60, ss |-> t % 60]

\* pd.to_datetime on one value: parses text, leaves a datetime as it is
ToDatetime(v) == IF v.kind = "str" THEN [kind |-> "datetime", secs |-> v.mm * 60 + v.ss]
                 ELSE v

\* variant: a deque built without maxlen
DequeAppendUnbounded(d, e) == Append(d, e)

\* variant: a full deque that gives up its newest entry instead of its oldest
DequeAppendDropNewest(d, e) ==
    IF Len(d) >= DEQUE_SIZE THEN Append(SubSeq(d, 1, Len(d) - 1), e) ELSE Append(d, e)

(* deque(maxlen=DEQUE_SIZE).append *)
DequeAppend(d, e) ==
    IF Len(d) >= DEQUE_SIZE THEN Append(Tail(d), e) ELSE Append(d, e)

----------------------------------------------------------------------------
(* DataFrame: ordered column names and the column values *)

EmptyDf == [cols |-> <<>>, data |-> <<>>, nrows |-> 0]

\* pd.DataFrame(deque of dicts with keys temp, timestamp)
DataFrame(d) ==
    IF Len(d) = 0 THEN EmptyDf
    ELSE [cols |-> <<"temp", "timestamp">>,
          data |-> <<[i \in 1..Len(d) |-> d[i].temp],
                     [i \in 1..Len(d) |-> d[i].timestamp]>>,
          nrows |-> Len(d)]

ColIndex(df, name) == CHOOSE i \in 1..Len(df.cols) : df.cols[i] = name

HasCol(df, name) == \E i \in 1..Len(df.cols) : df.cols[i] = name

Col(df, name) == df.data[ColIndex(df, name)]

\* df[name] = values: replaces the column in place, or adds it as the last column
SetCol(df, name, values) ==
    IF HasCol(df, name)
    THEN [df EXCEPT !.data[ColIndex(df, name)] = values]
    ELSE [df EXCEPT !.cols = Append(df.cols, name), !.data = Append(df.data, values)]

DfEmpty(df) == df.nrows = 0 \/ Len(df.cols) = 0

----------------------------------------------------------------------------
(* stats.linregress(x_vals, y_vals) with x_vals = list(range(n)) *)

SumSeq[s \in Seq(Q)] == IF Len(s) = 0 THEN RInt(0) ELSE RAdd[Head(s), SumSeq[Tail(s)]]

Mean[s \in Seq(Q)] == RDiv[SumSeq[s], RInt(Len(s))]

\* x - xmean for every x (and y - ymean for every y)
Centred[s \in Seq(Q), mean \in Q] == [i \in 1..Len(s) |-> RSub[s[i], mean]]

Products[a \in Seq(Q), b \in Seq(Q)] == [i \in 1..Len(a) |-> RMul[a[i], b[i]]]

\* intercept = ymean - slope * xmean
SlopeIntercept[slope \in Q, xmean \in Q, ymean \in Q] ==
    [slope |-> slope, intercept |-> RSub[ymean, RMul[slope, xmean]]]

\* ssxm = mean((x - xmean)^2), ssxym = mean((x - xmean)(y - ymean)), slope = ssxym / ssxm
CentredFit[dx \in Seq(Q), dy \in Seq(Q), xmean \in Q, ymean \in Q] ==
    SlopeIntercept[RDiv[Mean[Products[dx, dy]], Mean[Products[dx, dx]]], xmean, ymean]

MeanFit[xs \in Seq(Q), ys \in Seq(Q), xmean \in Q, ymean \in Q] ==
    CentredFit[Centred[xs, xmean], Centred[ys, ymean], xmean, ymean]

XYFit[xs \in Seq(Q), ys \in Seq(Q)] == MeanFit[xs, ys, Mean[xs], Mean[ys]]

Linregress(ys) ==
    XYFit[[i \in 1..Len(ys) |-> RInt(i - 1)], [i \in 1..Len(ys) |-> RInt(ys[i])]]

\* the (slope, intercept) pair the program unpacks from the result
Fit == [slope : Q, intercept : Q]

LineThrough[slope \in Q, intercept \in Q, n \in Nat] ==
    [i \in 1..n |-> RAdd[RMul[slope, RInt(i - 1)], intercept]]

FitLine[fit \in Fit, n \in Nat] ==
    LineThrough[fit.slope, fit.intercept, n]

\* [slope * x + intercept for x in x_vals]
FittedLine(ys) == FitLine[Linregress(ys), Len(ys)]

----------------------------------------------------------------------------
(* The two reactive calcs *)

\* variant: a plain function in place of the calc, run on every call
CalcAlwaysRuns == TRUE

\* @reactive.calc(): the body runs only when no cached value is held
CalcMustRun == ~calcValid

\* variant: the latest entry read from the front of the deque
reactive_calc_combined_oldest(temp) ==
    LET new_dictionary_entry == [temp |-> temp, timestamp |-> Strftime(now)]
        deque_snapshot == DequeAppend(window, new_dictionary_entry)
    IN  [window |-> deque_snapshot,
         appended |-> Append(appended, new_dictionary_entry),
         df |-> DataFrame(deque_snapshot),
         latest |-> deque_snapshot[1]]

\* body of reactive_calc_combined for a drawn temp: the values after the call
reactive_calc_combined(temp) ==
    LET new_dictionary_entry == [temp |-> temp, timestamp |-> Strftime(now)]
        deque_snapshot == DequeAppend(window, new_dictionary_entry)
    IN  [window |-> deque_snapshot,
         appended |-> Append(appended, new_dictionary_entry),
         df |-> DataFrame(deque_snapshot),
         latest |-> new_dictionary_entry]

\* a call reactive_calc_combined(): the cached tuple, or a run of the body.
\* The first element of the tuple is the deque itself, so it is read from window.
CalcRead(temp) ==
    IF CalcMustRun THEN reactive_calc_combined(temp)
    ELSE [window |-> window, appended |-> appended, df |-> calcDf, latest |-> calcLatest]

\* what a call reactive_calc_combined() may draw: a cached call draws nothing
DrawSet == IF CalcMustRun THEN RandomTemp ELSE {calcLatest.temp}

NoPrediction == [kind |-> "None", tenths |-> 0]

\* variant: the line taken at the last index instead of the next one
NextXLast(df) == df.nrows - 1

\* the index the fitted line is extrapolated to: next_x = len(df)
NextX(df) == df.nrows

\* variants: the guard of predicted_temp off by one either way
MinPointsOne == 2 - 1

MinPointsThree == 2 + 1

\* the window length under which predicted_temp gives up: if len(df) < 2
MinPoints == 2

\* body of predicted_temp on the df it reads: the possible results
\* round(slope * next_x + intercept, 1)
Extrapolate[fit \in Fit, next_x \in Int] ==
    RAdd[RMul[fit.slope, RInt(next_x)], fit.intercept]

Rounded[q \in Q] ==
    IF IsNaN(q) THEN {[value |-> [kind |-> "nan", tenths |-> 0], regressed |-> TRUE]}
    ELSE {[value |-> [kind |-> "num", tenths |-> p], regressed |-> TRUE] :
            p \in RoundHalfEither(q)}

\* body of predicted_temp on the df it reads: the possible results
predicted_temp(df) ==
    IF df.nrows < MinPoints
    THEN {[value |-> NoPrediction, regressed |-> FALSE]}
    ELSE Rounded[Extrapolate[Linregress(Col(df, "temp")), NextX(df)]]

get_temp_gradient(temp) ==
    IF temp.kind = "None" THEN "bg-gradient-gray-white"
    ELSE IF temp.kind = "num" /\ temp.tenths >= -162 THEN "bg-gradient-orange-red"
    ELSE IF temp.kind = "num" /\ temp.tenths >= -170 THEN "bg-gradient-yellow-orange"
    ELSE "bg-gradient-blue-purple"

----------------------------------------------------------------------------
(* State *)

Invalidated == [state |-> "invalidated"]

NotRead == [read |-> FALSE]

Observed(c) == [read |-> TRUE, window |-> c.window, latest |-> c.latest,
                temps |-> Col(c.df, "temp")]

Init ==
    /\ window = <<>>
    /\ appended = <<>>
    /\ now = 0
    /\ flushes = 1
    /\ calcValid = FALSE
    /\ calcDf = EmptyDf
    /\ calcLatest = [temp |-> 0, timestamp |-> Strftime(0)]
    /\ predValid = FALSE
    /\ predValue = NoPrediction
    /\ predRegressed = FALSE
    /\ pending = Renderers
    /\ out = [r \in Renderers |-> Invalidated]
    /\ seen = [c \in Consumers |-> NotRead]

\* the effect of a call of reactive_calc_combined() on the deque and the calc's cache,
\* all but the DataFrame, which the caller may go on to change
Commit(c) ==
    /\ window' = c.window
    /\ appended' = c.appended
    /\ calcLatest' = c.latest
    /\ calcValid' = TRUE

\* reactive.invalidate_later(UPDATE_INTERVAL_SECS) fires: the calc, predicted_temp and
\* every renderer are invalidated.  Shiny holds the reactive lock for a whole flush,
\* so the timer fires between flushes.
TimerFire ==
    /\ calcValid
    /\ pending = {}
    /\ flushes < MaxTicks
    /\ now' = now + UPDATE_INTERVAL_SECS
    /\ flushes' = flushes + 1
    /\ calcValid' = FALSE
    /\ predValid' = FALSE
    /\ predRegressed' = FALSE
    /\ pending' = Renderers
    /\ out' = [r \in Renderers |-> Invalidated]
    /\ seen' = [c \in Consumers |-> NotRead]
    /\ UNCHANGED <<window, appended, calcDf, calcLatest, predValue>>

display_temp ==
    /\ "display_temp" \in pending
    /\ \E temp \in DrawSet :
         \E c \in {CalcRead(temp)} :
         /\ Commit(c)
         /\ calcDf' = c.df
         /\ out' = [out EXCEPT !["display_temp"] =
                        [state |-> "text", temp |-> c.latest.temp, unit |-> "C"]]
         /\ seen' = [seen EXCEPT !["display_temp"] = Observed(c)]
    /\ pending' = pending \ {"display_temp"}
    /\ UNCHANGED <<now, flushes, predValid, predValue, predRegressed>>

display_temp_note ==
    /\ "display_temp_note" \in pending
    /\ \E temp \in DrawSet :
         \E c \in {CalcRead(temp)} :
         /\ Commit(c)
         /\ calcDf' = c.df
         /\ out' = [out EXCEPT !["display_temp_note"] =
                        [state |-> "text",
                         note |-> IF c.latest.temp > -170 THEN "Warmer than usual"
                                  ELSE "Within expected range"]]
         /\ seen' = [seen EXCEPT !["display_temp_note"] = Observed(c)]
    /\ pending' = pending \ {"display_temp_note"}
    /\ UNCHANGED <<now, flushes, predValid, predValue, predRegressed>>

\* the value box built from the value of predicted_temp()
ValueBox(temp) ==
    LET note == IF temp.kind = "None" THEN "Not enough data to predict"
                ELSE IF temp.kind = "num" /\ temp.tenths > -170 THEN "Warming trend"
                ELSE IF temp.kind = "num" /\ temp.tenths < -175 THEN "Cooling trend"
                ELSE "Stable trend"
    IN  [state |-> "ui", temp |-> temp, note |-> note, theme |-> get_temp_gradient(temp)]

dynamic_predicted_value_box ==
    /\ "dynamic_predicted_value_box" \in pending
    /\ IF predValid
       THEN /\ out' = [out EXCEPT !["dynamic_predicted_value_box"] = ValueBox(predValue)]
            /\ UNCHANGED <<window, appended, calcLatest, calcValid, calcDf,
                           predValid, predValue, predRegressed, seen>>
       ELSE \E temp \in DrawSet :
              \E c \in {CalcRead(temp)} :
              /\ Commit(c)
              /\ calcDf' = c.df
              /\ seen' = [seen EXCEPT !["predicted_temp"] = Observed(c)]
              /\ \E p \in predicted_temp(c.df) :
                   /\ predValue' = p.value
                   /\ predRegressed' = p.regressed
                   /\ predValid' = TRUE
                   /\ out' = [out EXCEPT !["dynamic_predicted_value_box"] =
                                  ValueBox(p.value)]
    /\ pending' = pending \ {"dynamic_predicted_value_box"}
    /\ UNCHANGED <<now, flushes>>

\* render.DataGrid(df): the table as serialised when the renderer returns
DataGrid(df) == [state |-> "grid", cols |-> df.cols, data |-> df.data]

display_df ==
    /\ "display_df" \in pending
    /\ \E temp \in DrawSet :
         \E c \in {CalcRead(temp)} :
         /\ Commit(c)
         /\ calcDf' = c.df
         /\ out' = [out EXCEPT !["display_df"] = DataGrid(c.df)]
         /\ seen' = [seen EXCEPT !["display_df"] = Observed(c)]
    /\ pending' = pending \ {"display_df"}
    /\ UNCHANGED <<now, flushes, predValid, predValue, predRegressed>>

\* df["timestamp"] = pd.to_datetime(df["timestamp"])
WithDatetime(df) ==
    SetCol(df, "timestamp",
           [i \in 1..df.nrows |-> ToDatetime(Col(df, "timestamp")[i])])

\* the guard of both charts: if not df.empty
ChartDraws(df) == ~DfEmpty(df)

\* body of display_plot / display_bar_chart on the df it reads, adding column lineCol:
\* the df as the renderer leaves it, and the figure (None when the guard fails)
Figure(d1, d2, lineCol) ==
    [df |-> d2,
     fig |-> [state |-> "fig", x |-> Col(d1, "timestamp"),
              y |-> Col(d1, "temp"), line |-> Col(d2, lineCol)]]

FitInto(d1, lineCol) == Figure(d1, SetCol(d1, lineCol, FittedLine(Col(d1, "temp"))), lineCol)

Chart(df, lineCol) ==
    IF ChartDraws(df) THEN FitInto(WithDatetime(df), lineCol)
    ELSE [df |-> df, fig |-> [state |-> "None"]]

display_plot ==
    /\ "display_plot" \in pending
    /\ \E temp \in DrawSet :
         \E c \in {CalcRead(temp)} : \E r \in {Chart(c.df, "best_fit_line")} :
         /\ Commit(c)
         /\ calcDf' = r.df
         /\ out' = [out EXCEPT !["display_plot"] = r.fig]
         /\ seen' = [seen EXCEPT !["display_plot"] = Observed(c)]
    /\ pending' = pending \ {"display_plot"}
    /\ UNCHANGED <<now, flushes, predValid, predValue, predRegressed>>

display_bar_chart ==
    /\ "display_bar_chart" \in pending
    /\ \E temp \in DrawSet :
         \E c \in {CalcRead(temp)} : \E r \in {Chart(c.df, "trend_line")} :
         /\ Commit(c)
         /\ calcDf' = r.df
         /\ out' = [out EXCEPT !["display_bar_chart"] = r.fig]
         /\ seen' = [seen EXCEPT !["display_bar_chart"] = Observed(c)]
    /\ pending' = pending \ {"display_bar_chart"}
    /\ UNCHANGED <<now, flushes, predValid, predValue, predRegressed>>

Next ==
    \/ TimerFire
    \/ display_temp
    \/ display_temp_note
    \/ dynamic_predicted_value_box
    \/ display_df
    \/ display_plot
    \/ display_bar_chart

Spec == Init /\ [][Next]_vars

\* the timer and the flush of invalidated outputs always run
FairSpec == Spec /\ WF_vars(Next)

----------------------------------------------------------------------------
(* Properties *)

Min(a, b) == IF a < b THEN a ELSE b

Last(s) == s[Len(s)]

Temps(w) == [i \in 1..Len(w) |-> w[i].temp]

\* the last k elements of s
Suffix(s, k) == SubSeq(s, Len(s) - k + 1, Len(s))

RECURSIVE Sum(_, _)
Sum(f, n) == IF n = 0 THEN 0 ELSE f[n] + Sum(f, n - 1)

\* Ordinary least squares by the normal equations, over the integers: for points
\* (i - 1, ys[i]) the fitted line at x = n is OlsNum / OlsDen, with OlsDen > 0 for n >= 2.
OlsDen(ys) ==
    LET n == Len(ys)
        sx == Sum([i \in 1..n |-> i - 1], n)
        sxx == Sum([i \in 1..n |-> (i - 1) * (i - 1)], n)
    IN  n * (n * sxx - sx * sx)

OlsNum(ys) ==
    LET n == Len(ys)
        sx == Sum([i \in 1..n |-> i - 1], n)
        sy == Sum(ys, n)
        sxx == Sum([i \in 1..n |-> (i - 1) * (i - 1)], n)
        sxy == Sum([i \in 1..n |-> (i - 1) * ys[i]], n)
        a == n * sxy - sx * sy
        d == n * sxx - sx * sx
    IN  a * n * n + sy * d - a * sx

\* p is OlsNum / OlsDen rounded to an integer (to one decimal, in tenths)
IsOlsRounded(p, ys) == 2 * Abs(p * OlsDen(ys) - OlsNum(ys)) <= OlsDen(ys)

RECURSIVE AppendAll(_, _)
AppendAll(d, temps) ==
    IF Len(temps) = 0 THEN d
    ELSE AppendAll(DequeAppend(d, [temp |-> Head(temps), timestamp |-> Strftime(Len(d))]),
                   Tail(temps))

\* C1: the history window never holds more than DEQUE_SIZE = 5 readings.
C1_WindowBounded == Len(window) <= DEQUE_SIZE

C1_Witness == Len(appended) > DEQUE_SIZE /\ Len(window) = DEQUE_SIZE

\* C2: after k appends the window is exactly the last min(k, 5) appended readings in
\* arrival order; after 6 appends the first reading is gone and readings 2..6 remain.
C2_WindowIsRecentSuffix ==
    /\ window = Suffix(appended, Min(Len(appended), DEQUE_SIZE))
    /\ Len(appended) = DEQUE_SIZE + 1 =>
         /\ \A i \in 1..Len(window) : window[i] # appended[1]
         /\ window = SubSeq(appended, 2, DEQUE_SIZE + 1)

C2_Witness ==
    /\ Len(appended) = DEQUE_SIZE + 1
    /\ window[1] = appended[2]
    /\ Last(window) = appended[DEQUE_SIZE + 1]

\* C3: on a window of fewer than 2 readings predicted_temp returns None and runs no
\* regression.
C3_ShortWindowNoPrediction ==
    /\ (predValid /\ Len(window) < 2) => (predValue = NoPrediction /\ ~predRegressed)
    /\ \A w \in {<<>>, SubSeq(window, 1, Min(Len(window), 1))} :
         predicted_temp(DataFrame(w)) = {[value |-> NoPrediction, regressed |-> FALSE]}

C3_Witness == predValid /\ Len(window) = 1 /\ predValue = NoPrediction

\* C4: on a window of 2..5 readings predicted_temp returns the least-squares line of the
\* temperatures against 0..n-1, taken at x = n and rounded to one decimal; appending
\* 1,2,3,4,5,6 with capacity 5 leaves 2,3,4,5,6 and predicts 7.0.
C4_PredictionIsOlsExtrapolation ==
    /\ (predValid /\ Len(window) >= 2) =>
         /\ Len(window) <= DEQUE_SIZE
         /\ predValue.kind = "num"
         /\ predRegressed
         /\ IsOlsRounded(predValue.tenths, Temps(window))
    /\ LET w == AppendAll(<<>>, <<10, 20, 30, 40, 50, 60>>)
       IN  /\ Temps(w) = <<20, 30, 40, 50, 60>>
           /\ predicted_temp(DataFrame(w)) =
                {[value |-> [kind |-> "num", tenths |-> 70], regressed |-> TRUE]}

C4_Witness ==
    /\ predValid
    /\ Len(window) = DEQUE_SIZE
    /\ predValue.kind = "num"
    /\ 2 * Abs(predValue.tenths * OlsDen(Temps(window)) - OlsNum(Temps(window)))
         = OlsDen(Temps(window))

\* C5: after a tick the snapshot's last element is the reading created in that tick, and
\* it equals the latest entry returned with it, whether or not the window was full.
C5_LatestIsLastOfSnapshot ==
    /\ calcValid =>
         /\ Len(window) >= 1
         /\ Last(window) = calcLatest
         /\ calcLatest = Last(appended)
         /\ calcLatest.timestamp = Strftime(now)
    /\ \A c \in Consumers :
         seen[c].read => Last(seen[c].window) = seen[c].latest

C5_Witness ==
    /\ calcValid
    /\ Len(appended) > DEQUE_SIZE
    /\ Last(window) = calcLatest
    /\ seen["display_df"].read

\* C6: the renderers leave the tick's shared data unchanged: the cached DataFrame stays
\* what reactive_calc_combined returned, and the table display_df shows has the same
\* columns and values whichever renderers ran before it.
C6_RenderersArePure ==
    /\ calcValid => calcDf = DataFrame(window)
    /\ out["display_df"].state = "grid" =>
         out["display_df"] = DataGrid(DataFrame(window))

\* C7: the only degraded outcome is "Not enough data to predict" on a window of fewer
\* than 2 readings; every fitted line of both charts is defined for every window.
C7_OnlyPredictorDegrades ==
    /\ out["dynamic_predicted_value_box"].state = "ui" =>
         /\ out["dynamic_predicted_value_box"].temp.kind \in {"None", "num"}
         /\ out["dynamic_predicted_value_box"].temp.kind = "None" <=> Len(window) < 2
    /\ \A r \in {"display_plot", "display_bar_chart"} :
         out[r].state # "invalidated" =>
           /\ out[r].state = "fig"
           /\ \A i \in 1..Len(out[r].line) : ~IsNaN(out[r].line[i])

\* C8: every reading ever appended has a temperature in [-18.0, -16.0], in tenths.
C8_TempInRange ==
    /\ \A i \in 1..Len(appended) :
         appended[i].temp \in (UniformLo \div 10)..(UniformHi \div 10)
    /\ \A i \in 1..Len(window) :
         window[i].temp \in (UniformLo \div 10)..(UniformHi \div 10)

C8_Witness ==
    /\ Len(window) = DEQUE_SIZE
    /\ \E i \in 1..Len(window) : window[i].temp = UniformLo \div 10
    /\ \E i \in 1..Len(window) : window[i].temp # UniformLo \div 10

\* C9: a tick appends exactly one reading however many consumers read the calc and in
\* whatever order; all of them get the same window and latest reading, and the
\* prediction is computed from the window the table and charts show.
C9_OneAppendPerTick ==
    /\ Len(appended) = IF calcValid THEN flushes ELSE flushes - 1
    /\ \A c \in Consumers :
         seen[c].read =>
           /\ calcValid
           /\ seen[c].window = window
           /\ seen[c].latest = calcLatest
           /\ seen[c].temps = Temps(window)
    /\ \A c1, c2 \in Consumers :
         (seen[c1].read /\ seen[c2].read) => seen[c1] = seen[c2]
    /\ (predValid /\ predValue.kind = "num") =>
         /\ seen["predicted_temp"].read
         /\ IsOlsRounded(predValue.tenths, seen["predicted_temp"].temps)
         /\ out["display_df"].state = "grid" =>
              Col(out["display_df"], "temp") = seen["predicted_temp"].temps

C9_Witness ==
    /\ pending = {}
    /\ flushes >= 2
    /\ \A c \in Consumers : seen[c].read
    /\ Len(appended) = flushes

\* C10: the window length never decreases and is min(k, 5) after the k-th tick; "Not
\* enough data to predict" appears only during the first tick and from the second tick
\* on the prediction is a number; the window reaches 5 readings and then stays at 5.
C10_WindowGrowsThenStaysFull ==
    /\ [][Len(window') >= Len(window)]_vars
    /\ [][Len(window) = DEQUE_SIZE => Len(window') = DEQUE_SIZE]_vars
    /\ [](calcValid => (Len(window) = Min(flushes, DEQUE_SIZE) /\ Len(window) >= 1))
    /\ []((out["dynamic_predicted_value_box"].state = "ui"
           /\ out["dynamic_predicted_value_box"].note = "Not enough data to predict")
          => flushes = 1)
    /\ []((predValid /\ flushes >= 2) => predValue.kind = "num")
    /\ <>[](Len(window) = DEQUE_SIZE)

C10_Witness ==
    /\ flushes > DEQUE_SIZE
    /\ Len(window) = DEQUE_SIZE
    /\ out["dynamic_predicted_value_box"].state = "ui"
    /\ out["dynamic_predicted_value_box"].temp.kind = "num"

====
